---- MODULE Spec2Model ----
(***************************************************************************)
(* Model of the provisioning engine of repl_creator (src/create_repl.py):  *)
(* the remote client ReplitAPI, the orchestrator ReplCreator.create_repl   *)
(* with its local record store, the bulk runner bulk_create_repls, the     *)
(* configuration store ReplConfig and the prompts of ReplWizard.           *)
(*                                                                         *)
(* Python values are modelled as follows.  An Optional value is a sequence *)
(* of length 0 (None / key missing) or 1.  A title is a sequence of        *)
(* one-character strings.  An exception is a record [cls, msg].  A file is *)
(* a record with a kind ("absent", "full", "empty", "partial").            *)
(***************************************************************************)
EXTENDS Integers, Sequences, FiniteSets, TLC

(***************************************************************************)
(* Bounds of the model.                                                    *)
(***************************************************************************)
\* number of create_repl invocations (direct or from a bulk run) in one run
MaxCalls == 2
\* length of the list a bulk run replays
MaxBulk == 2

(***************************************************************************)
(* Optional values and Python truthiness.                                  *)
(***************************************************************************)
None == <<>>
Some(v) == <<v>>
IsNone(o) == o = <<>>
\* "if x:" / "x or y" on an Optional[str]: None and "" are falsy
Truthy(o) == o # <<>> /\ o[1] # ""

(***************************************************************************)
(* Input domains.                                                          *)
(***************************************************************************)
Titles == { <<"D">>, <<"d">>, <<"a", " ", "b">> }
Languages == { "python", "nodejs", "ruby" }
TemplateFiles == { None, Some("tpl.json") }
Privacies == { FALSE }
TeamIds == { None }
CreateRemoteArgs == { None, Some(TRUE), Some(FALSE) }

(***************************************************************************)
(* str.lower() and str.replace(' ', '_') on the characters of a title.     *)
(***************************************************************************)
LowerChar(c) ==
    CASE c = "D" -> "d"
      [] c = "A" -> "a"
      [] c = "B" -> "b"
      [] c = "Y" -> "y"
      [] c = "N" -> "n"
      [] OTHER -> c

SpaceToUnderscore(c) == IF c = " " THEN "_" ELSE c

\* the name without the lower-casing
NoLowerSlug(title) == [i \in 1..Len(title) |-> SpaceToUnderscore(title[i])]

\* f"{title.lower().replace(' ', '_')}.json": the name of the record document
ConfigFileName(title) ==
    [i \in 1..Len(title) |-> SpaceToUnderscore(LowerChar(title[i]))]

Slugs == { ConfigFileName(t) : t \in Titles }

(***************************************************************************)
(* Exceptions.  Ancestors(cls) is the set of classes an "except" clause    *)
(* naming one of them catches (the Python and requests class hierarchy).   *)
(***************************************************************************)
Ancestors(cls) ==
    CASE cls = "ConnectionError" ->
           {"ConnectionError", "RequestException", "OSError", "Exception"}
      [] cls = "Timeout" ->
           {"Timeout", "RequestException", "OSError", "Exception"}
      [] cls = "RequestException" ->
           {"RequestException", "OSError", "Exception"}
      [] cls = "JSONDecodeError" ->
           {"JSONDecodeError", "RequestException", "ValueError", "OSError",
            "Exception"}
      [] cls = "FileNotFoundError" ->
           {"FileNotFoundError", "OSError", "Exception"}
      [] cls = "KeyError" -> {"KeyError", "LookupError", "Exception"}
      [] OTHER -> {cls, "Exception"}

IsInstance(cls, base) == base \in Ancestors(cls)

Raise(cls, msg) == [kind |-> "raise", cls |-> cls, msg |-> msg]
\* ConfigurationError(message, path)
ConfigurationError(msg, path) ==
    [kind |-> "raise", cls |-> "ConfigurationError", msg |-> msg,
     path |-> path]
Return(v) == [kind |-> "return", value |-> v]

(***************************************************************************)
(* What one requests.post can produce: an exception of the transport, or   *)
(* a response with a status code and a body.  Bodies:                      *)
(*   "repl"    {"data": {"createRepl": {"repl": {...}}}}                   *)
(*   "norepl"  {"data": {}}            "nodata"  {}                        *)
(*   "errors"  {"errors": [...]}       "null"    null                      *)
(*   "badjson" not a JSON document                                         *)
(***************************************************************************)
TransportExceptions == { "ConnectionError", "Timeout" }
Bodies == { "repl", "norepl", "nodata", "errors", "null" }
FailureStatuses == { 201, 401, 403, 429, 500 }

NetExc(cls) == [kind |-> "exc", cls |-> cls]
NetResp(status, body) == [kind |-> "resp", status |-> status, body |-> body]

NetOutcomes ==
    { NetExc(c) : c \in TransportExceptions }
      \cup { NetResp(200, b) : b \in Bodies }
      \cup { NetResp(s, "repl") : s \in FailureStatuses }

\* the failures the spec calls transport-class: connection failure, timeout
TransportFailures == { NetExc("ConnectionError"), NetExc("Timeout") }

\* a response the provider means as a success with the created workspace
NetSuccess == NetResp(200, "repl")

\* the non-transport failures: 401, 403, 429, other non-2xx, errors, null
NonTransportFailures ==
    { NetResp(s, "repl") : s \in { 401, 403, 429, 500 } }
      \cup { NetResp(200, "errors"), NetResp(200, "null") }

(***************************************************************************)
(* ReplitAPI._handle_api_response                                          *)
(***************************************************************************)
_handle_api_response(response) ==
    IF response.status = 200
    THEN CASE response.body = "badjson" ->
                \* response.json() raises requests' JSONDecodeError, which
                \* the except clause turns into a ValueError
                Raise("ValueError", "Invalid JSON response from API")
           [] response.body = "null" ->
                Raise("ValueError", "API returned null response")
           [] response.body = "errors" ->
                Raise("ValueError", "API errors")
           [] OTHER -> Return(response.body)
    ELSE CASE response.status = 401 ->
                Raise("ValueError", "Authentication failed")
           [] response.status = 403 ->
                Raise("ValueError", "Access forbidden")
           [] response.status = 429 ->
                Raise("ValueError", "Rate limit exceeded")
           [] OTHER ->
                Raise("ValueError", "API request failed with status")

(***************************************************************************)
(* ReplitAPI._graphql_request: one requests.post, then the classification. *)
(***************************************************************************)
_graphql_request(net) ==
    IF net.kind = "exc"
    THEN CASE IsInstance(net.cls, "ConnectionError") ->
                Raise("ValueError", "Failed to connect to Replit API")
           [] IsInstance(net.cls, "Timeout") ->
                Raise("ValueError", "Request to Replit API timed out")
           [] OTHER ->
                Raise("ValueError", "API request failed")
    ELSE _handle_api_response(net)

(***************************************************************************)
(* The workspace as the provider reports it, and the empty dict.           *)
(***************************************************************************)
EmptyDict == [dict |-> "empty"]

ReportedRepl(title, language, is_private) ==
    [id |-> "r1", url |-> "https://replit.com/r1", title |-> title,
     language |-> language, isPrivate |-> is_private]

HasKey(d, k) == k \in DOMAIN d

(***************************************************************************)
(* ReplitAPI.create_remote_repl.  The result carries the number of network *)
(* requests that were made (posts).                                        *)
(***************************************************************************)
WithPosts(r, n) == [f \in (DOMAIN r) \cup {"posts"} |->
                        IF f = "posts" THEN n ELSE r[f]]

create_remote_repl(is_remote_enabled, title, language, is_private, net) ==
    IF ~is_remote_enabled
    THEN WithPosts(Raise("ValueError",
                         "Remote Repl creation is temporarily unavailable"), 0)
    ELSE LET response == _graphql_request(net) IN
         IF response.kind = "raise"
         THEN WithPosts(response, 1)
         ELSE IF response.value \in {"repl", "norepl"}
              THEN \* response['data'].get('createRepl', {}).get('repl', {})
                   WithPosts(Return(IF response.value = "repl"
                                    THEN ReportedRepl(title, language, is_private)
                                    ELSE EmptyDict), 1)
              ELSE WithPosts(Raise("Exception", "Failed to create remote Repl"), 1)

(***************************************************************************)
(* ReplitAPI.get_templates                                                 *)
(***************************************************************************)
get_templates(is_remote_enabled, net) ==
    IF ~is_remote_enabled
    THEN WithPosts(Return(<<>>), 0)
    ELSE LET response == _graphql_request(net) IN
         IF response.kind = "raise"
         THEN WithPosts(response, 1)
         ELSE IF response.value = "repl"
              THEN WithPosts(Return(<<"template1">>), 1)
              ELSE WithPosts(Return(<<>>), 1)

(***************************************************************************)
(* ReplitAPI.is_remote_enabled: bool(self.token), fixed at construction.   *)
(***************************************************************************)
Tokens == { None, Some("token") }

\* the property answering True whatever the token
AlwaysEnabled(tok) == TRUE

is_remote_enabled(tok) == Truthy(tok)

(***************************************************************************)
(* ReplConfig.get_default_config and a configuration loaded from a         *)
(* document (the fields the provisioning engine reads).                    *)
(***************************************************************************)
get_default_config ==
    [default_language |-> "python", team_id |-> None,
     default_privacy |-> FALSE, create_remote |-> FALSE]

LoadedConfig ==
    [default_language |-> "nodejs", team_id |-> Some("team9"),
     default_privacy |-> TRUE, create_remote |-> TRUE]

InitialConfigs == { get_default_config, LoadedConfig }

(***************************************************************************)
(* Files.  A record document is absent, complete (full), or torn by a      *)
(* failed write (empty after the truncation of open(.., "w"), or partial). *)
(***************************************************************************)
AbsentFile == [kind |-> "absent"]
EmptyFile == [kind |-> "empty"]
PartialFile == [kind |-> "partial"]
FullDoc(rec) == [kind |-> "full", rec |-> rec]

\* how a write of a document can end
WriteOutcomes == { "ok", "open_fail", "truncated", "partial" }

\* with open(config_file, "w") as f: json.dump(config, f, indent=2)
WriteDocument(old, rec, outcome) ==
    CASE outcome = "ok" -> FullDoc(rec)
      [] outcome = "open_fail" -> old
      [] outcome = "truncated" -> EmptyFile
      [] OTHER -> PartialFile

\* a write whose failure goes unnoticed
WriteNeverFailed(outcome) == FALSE

\* a failed write raises OSError (IOError)
WriteFailed(outcome) == outcome # "ok"

(***************************************************************************)
(* ReplCreator.create_repl, lines 417-428: the requested flag, downgraded  *)
(* when the client is disabled.                                            *)
(***************************************************************************)
ResolveCreateRemote(create_remote_arg, tok) ==
    LET requested == IF IsNone(create_remote_arg) THEN FALSE
                     ELSE create_remote_arg[1]
    IN  IF requested /\ ~is_remote_enabled(tok) THEN Some(FALSE)
        ELSE Some(requested)

(***************************************************************************)
(* create_repl, lines 430-451: the local record.                           *)
(***************************************************************************)
RunCommand(language) ==
    CASE language = "python" -> "python main.py"
      [] language = "nodejs" -> "node index.js"
      [] OTHER -> ""

EntryPointName(language) ==
    CASE language = "python" -> "main.py"
      [] language = "nodejs" -> "index.js"
      [] OTHER -> ""

BuildConfig(language, is_private, template_file, team_id, self_cfg) ==
    [run |-> RunCommand(language),
     language |-> language,
     entrypoint |-> EntryPointName(language),
     onBoot |-> "",
     packager |-> [language |-> language, ignoredPaths |-> <<".git">>],
     template |-> template_file,
     team_id |-> IF Truthy(team_id) THEN team_id ELSE self_cfg.team_id,
     is_private |-> is_private,
     remote |-> None]

\* an embedding that forgets the template of the record
EmbedRemoteDropsTemplate(rec, remote_config) ==
    [rec EXCEPT !.remote = Some(remote_config), !.template = None]

\* create_repl, line 481: config["remote"] = remote_config
EmbedRemote(rec, remote_config) ==
    [rec EXCEPT !.remote = Some(remote_config)]

(***************************************************************************)
(* create_repl, lines 470-471: whether the remote loop is entered.         *)
(***************************************************************************)
RemoteLoopEntered(create_remote_local, self_cfg, tok) ==
    LET flag == IF ~IsNone(create_remote_local) THEN create_remote_local[1]
                ELSE self_cfg.create_remote
    IN  flag /\ is_remote_enabled(tok)

max_retries == 3

(***************************************************************************)
(* Entry-point artifacts, written to the working directory.                *)
(***************************************************************************)
EntryFiles == { "main.py", "index.js" }
EntryWriteOutcomes == { "ok", "open_fail" }
TemplateReadOutcomes == { "ok", "fail" }

StubFor(entrypoint) ==
    CASE entrypoint = "main.py" -> "stub_py"
      [] entrypoint = "index.js" -> "stub_js"
      [] OTHER -> "empty"

\* ReplCreator._create_entry_point: [files, exc]
_create_entry_point(entrypoint, fs, w) ==
    IF entrypoint = ""
    THEN \* os.path.exists("") is False and open("", "w") raises
         [files |-> fs, exc |-> Some(Raise("FileNotFoundError", "No such file"))]
    ELSE IF fs[entrypoint] # "absent"
         THEN [files |-> fs, exc |-> None]
         ELSE IF w = "ok"
              THEN [files |-> [fs EXCEPT ![entrypoint] = StubFor(entrypoint)],
                    exc |-> None]
              ELSE [files |-> fs, exc |-> Some(Raise("OSError", "open failed"))]

\* ReplCreator._create_from_template: [files, exc]
_create_from_template(entrypoint, fs, tplRead, w, w2) ==
    IF tplRead = "fail"
    THEN _create_entry_point(entrypoint, fs, w2)
    ELSE IF entrypoint = "main.py"
         THEN IF w = "ok"
              THEN [files |-> [fs EXCEPT ![entrypoint] = "expansion"],
                    exc |-> None]
              ELSE _create_entry_point(entrypoint, fs, w2)
         ELSE [files |-> fs, exc |-> None]

\* how the try body of _create_from_template ended: the template was read
\* and parsed and the body completed ("ok"), the read or the parse raised
\* ("failed"), or the write of the expansion raised ("unwritten")
TemplateOutcome(entrypoint, tplRead, w) ==
    IF tplRead = "fail" THEN "failed"
    ELSE IF entrypoint = "main.py" /\ w # "ok" THEN "unwritten"
    ELSE "ok"

(***************************************************************************)
(* Entries of a bulk request file: every key may be missing (None).        *)
(***************************************************************************)
BulkEntries ==
    [title : { None, Some(<<"D">>), Some(<<"a", " ", "b">>) },
     language : { None, Some("ruby") },
     is_private : { None },
     template : { None },
     team_id : { None },
     create_remote : { None, Some(TRUE) }]

BulkFiles == UNION { [1..n -> BulkEntries] : n \in 0..MaxBulk }

\* dict.get(key, default)
Get(opt, default) == IF IsNone(opt) THEN default ELSE opt[1]

\* one entry of bulk_create_repls' results
SuccessOutcome(title, cfg) ==
    [title |-> title, status |-> "success", config |-> cfg]
ErrorOutcome(title, e) ==
    [title |-> title, status |-> "error", error |-> e.msg]

\* bulk_create_repls, lines 512-517: the arguments of the create_repl call
BulkArgs(repl_config, self_cfg) ==
    [title |-> repl_config.title[1],
     language |-> Get(repl_config.language, self_cfg.default_language),
     is_private |-> Get(repl_config.is_private, self_cfg.default_privacy),
     template_file |-> repl_config.template,
     team_id |-> repl_config.team_id,
     create_remote |-> repl_config.create_remote]

(***************************************************************************)
(* The configuration document.  ReplCreator.__init__ places it in          *)
(* config_dir, next to the record documents, under the name                *)
(* "repl_creator_config.json".                                             *)
(***************************************************************************)
ConfigDocName ==
    << "r", "e", "p", "l", "_", "c", "r", "e", "a", "t", "o", "r", "_",
       "c", "o", "n", "f", "i", "g" >>

\* every document of config_dir
DiskNames == Slugs \cup { ConfigDocName }

(***************************************************************************)
(* Values of a configuration's fields as Python holds them (by type) and   *)
(* as the JSON document holds them, and json.dump / json.load between the  *)
(* two.                                                                    *)
(***************************************************************************)
PyStr(s) == [t |-> "str", v |-> s]
PyBool(b) == [t |-> "bool", v |-> IF b THEN "True" ELSE "False"]
PyInt(n) == [t |-> "int", v |-> n]
PyNone == [t |-> "NoneType", v |-> "None"]
PyDict(c) == [t |-> "dict", v |-> c]
PyList(c) == [t |-> "list", v |-> c]

JsonDumpValue(p) ==
    CASE p.t = "str" -> [j |-> "string", v |-> p.v]
      [] p.t = "bool" ->
           [j |-> "literal", v |-> IF p.v = "True" THEN "true" ELSE "false"]
      [] p.t = "NoneType" -> [j |-> "literal", v |-> "null"]
      [] p.t = "int" -> [j |-> "number", v |-> p.v]
      [] p.t = "dict" -> [j |-> "object", v |-> p.v]
      [] OTHER -> [j |-> "array", v |-> p.v]

\* a decoder reading the literals true and false as the numbers 1 and 0
JsonLoadValueBoolAsInt(x) ==
    CASE x.j = "string" -> PyStr(x.v)
      [] x.j = "literal" ->
           IF x.v = "null" THEN PyNone
           ELSE PyInt(IF x.v = "true" THEN "1" ELSE "0")
      [] x.j = "number" -> PyInt(x.v)
      [] x.j = "object" -> PyDict(x.v)
      [] OTHER -> PyList(x.v)

JsonLoadValue(x) ==
    CASE x.j = "string" -> PyStr(x.v)
      [] x.j = "literal" ->
           IF x.v = "null" THEN PyNone ELSE PyBool(x.v = "true")
      [] x.j = "number" -> PyInt(x.v)
      [] x.j = "object" -> PyDict(x.v)
      [] OTHER -> PyList(x.v)

JsonDump(config) == [f \in DOMAIN config |-> JsonDumpValue(config[f])]
\* the document of a workspace record is held as the dict create_repl
\* dumped, and read back as that dict
JsonLoad(doc) ==
    IF "run" \in DOMAIN doc THEN doc
    ELSE [f \in DOMAIN doc |-> JsonLoadValue(doc[f])]

(***************************************************************************)
(* Configurations: the default of get_default_config, a configuration with *)
(* other values, and the same with a required field missing or of the      *)
(* wrong type.                                                             *)
(***************************************************************************)
DefaultConfiguration ==
    [default_language |-> PyStr("python"), templates |-> PyDict("{}"),
     team_id |-> PyNone, default_privacy |-> PyBool(FALSE),
     create_remote |-> PyBool(FALSE)]

LoadedConfiguration ==
    [default_language |-> PyStr("nodejs"), templates |-> PyDict("{basic}"),
     team_id |-> PyStr("team9"), default_privacy |-> PyBool(TRUE),
     create_remote |-> PyBool(TRUE)]

Without(config, fields) ==
    [f \in (DOMAIN config) \ fields |-> config[f]]

ValidConfigurations == { DefaultConfiguration, LoadedConfiguration }

InvalidConfigurations ==
    { Without(LoadedConfiguration, {"default_language"}),
      Without(LoadedConfiguration, {"templates"}),
      Without(LoadedConfiguration, {"default_privacy"}),
      Without(LoadedConfiguration, {"templates", "default_privacy"}),
      [LoadedConfiguration EXCEPT !.default_language = PyInt("5")],
      [LoadedConfiguration EXCEPT !.templates = PyList("[]")],
      [LoadedConfiguration EXCEPT !.default_privacy = PyInt("1")],
      [LoadedConfiguration EXCEPT !.default_privacy = PyStr("yes")] }

Configurations == ValidConfigurations \cup InvalidConfigurations

(***************************************************************************)
(* ConfigValidator.validate_config: None, or the exception it raises.  The *)
(* message is the text and the field name it is formatted from.            *)
(***************************************************************************)
required_fields == << "default_language", "templates", "default_privacy" >>

\* isinstance(config["default_privacy"], bool) replaced by a check that
\* also takes an int
PrivacyTypeOkIntToo(config) == config["default_privacy"].t \in {"bool", "int"}

PrivacyTypeOk(config) == config["default_privacy"].t = "bool"

validate_config(config) ==
    IF \E i \in 1..Len(required_fields) : required_fields[i] \notin DOMAIN config
    THEN LET i == CHOOSE k \in 1..Len(required_fields) :
                     /\ required_fields[k] \notin DOMAIN config
                     /\ \A m \in 1..(k - 1) :
                           required_fields[m] \in DOMAIN config
         IN  Some(ConfigurationError(
                      << "Missing required field: ", required_fields[i] >>,
                      None))
    ELSE IF config["default_language"].t # "str"
    THEN Some(ConfigurationError(<< "default_language", " must be a string" >>,
                                 None))
    ELSE IF config["templates"].t # "dict"
    THEN Some(ConfigurationError(<< "templates", " must be a dictionary" >>,
                                 None))
    ELSE IF ~PrivacyTypeOk(config)
    THEN Some(ConfigurationError(<< "default_privacy", " must be a boolean" >>,
                                 None))
    ELSE None

\* the type validate_config demands of each required field
FieldTypes ==
    [default_language |-> "str", templates |-> "dict",
     default_privacy |-> "bool"]

(***************************************************************************)
(* ReplConfig.load on the document as it is on disk.                       *)
(***************************************************************************)
load(doc) ==
    CASE doc.kind = "absent" -> Return(DefaultConfiguration)
      [] doc.kind \in {"empty", "partial"} ->
           \* json.load raises JSONDecodeError
           ConfigurationError(<< "Invalid JSON in config file" >>,
                              Some(ConfigDocName))
      [] OTHER ->
           LET config == JsonLoad(doc.rec)
               invalid == validate_config(config)
           IN  IF ~IsNone(invalid) THEN invalid[1] ELSE Return(config)

(***************************************************************************)
(* ReplConfig.save: [doc, result], the document it leaves and how it ends. *)
(***************************************************************************)
save(old, config, w) ==
    LET invalid == validate_config(config) IN
    IF ~IsNone(invalid)
    THEN [doc |-> old,
          result |-> ConfigurationError(
                         << "Failed to save config: " >> \o invalid[1].msg,
                         Some(ConfigDocName))]
    ELSE [doc |-> WriteDocument(old, JsonDump(config), w),
          result |-> IF WriteFailed(w)
                     THEN ConfigurationError(
                              << "Failed to save config: ", "OSError" >>,
                              Some(ConfigDocName))
                     ELSE Return(PyNone)]

\* config.get(field, default) on a boolean field of a loaded configuration
GetBool(config, field, default) ==
    IF field \in DOMAIN config THEN config[field].v = "True" ELSE default

(***************************************************************************)
(* ReplWizard.  What input() gives a prompt: a line (stripped; <<>> is the *)
(* empty answer), or an EOFError or KeyboardInterrupt.  A prompt returns a *)
(* value, raises, or asks again (the next turn of its "while True").       *)
(***************************************************************************)
Again == [kind |-> "again"]

\* response.lower()
Lower(text) == [i \in 1..Len(text) |-> LowerChar(text[i])]

Line(text) == [kind |-> "line", text |-> text]
Interrupt(cls) == [kind |-> "interrupt", cls |-> cls]
Interrupts == { Interrupt("EOFError"), Interrupt("KeyboardInterrupt") }

MyRepl == << "M", "y", "R", "e", "p", "l" >>
BasicName == << "b", "a", "s", "i", "c" >>

TitleInputs == Interrupts \cup { Line(<<>>), Line(<<"D">>) }
ChoiceInputs ==
    Interrupts \cup { Line(<<>>), Line(<<"1">>), Line(<<"2">>), Line(<<"3">>),
                      Line(<<"x">>) }
BooleanInputs ==
    Interrupts \cup { Line(<<>>), Line(<<"y">>), Line(<<"n">>), Line(<<"Y">>),
                      Line(<<"y", "e", "s">>), Line(<<"n", "o">>),
                      Line(<<"x">>) }
TemplateNameInputs ==
    Interrupts \cup { Line(<<>>), Line(BasicName), Line(<<"x">>) }

\* ReplWizard._prompt_string (with a default, or not required)
_prompt_string(input, default) ==
    IF input.kind = "interrupt"
    THEN IF ~IsNone(default) THEN Return(default[1])
         ELSE Raise(input.cls, "")
    ELSE IF input.text = <<>>
         THEN IF ~IsNone(default) THEN Return(default[1]) ELSE Return(<<>>)
         ELSE Return(input.text)

\* ReplWizard._prompt_boolean
_prompt_boolean(input, default) ==
    IF input.kind = "interrupt" THEN Return(default)
    ELSE LET response == Lower(input.text) IN
         IF response = <<>> THEN Return(default)
         ELSE IF response \in { <<"y">>, <<"y", "e", "s">> } THEN Return(TRUE)
         ELSE IF response \in { <<"n">>, <<"n", "o">> } THEN Return(FALSE)
         ELSE Again

\* the choices of the language prompt
LanguageChoices == << "python", "nodejs" >>

\* int(response) for the responses of the model; None when it raises
\* ValueError
ParseInt(text) ==
    CASE text = <<"1">> -> Some(1)
      [] text = <<"2">> -> Some(2)
      [] text = <<"3">> -> Some(3)
      [] OTHER -> None

\* ReplWizard._prompt_choice with a default that is one of the choices
_prompt_choice(input, choices, default) ==
    IF input.kind = "interrupt" THEN Return(default)
    ELSE IF input.text = <<>> THEN Return(default)
    ELSE LET n == ParseInt(input.text) IN
         IF ~IsNone(n) /\ 0 <= n[1] - 1 /\ n[1] - 1 < Len(choices)
         THEN Return(choices[n[1]])
         ELSE Again

\* a configuration that has templates for all that
HasTemplatesAlways(config) == TRUE

\* start_wizard, lines 284-286: "if templates:"
HasTemplates(config) == config["templates"].v # "{}"

\* templates.get(template_name, {}).get("path")
TemplatePath(templates, template_name) ==
    IF templates.v = "{basic}" /\ template_name = BasicName
    THEN Some("tpl.json") ELSE None

\* a request as start_wizard returns it
WizardRequest(title, language, is_private, template, cr) ==
    [title |-> title, language |-> language, is_private |-> is_private,
     template |-> template, create_remote |-> cr]

\* start_wizard, lines 308-314: the request returned on cancellation
FallbackRequest(config) ==
    WizardRequest(MyRepl, "python", GetBool(config, "default_privacy", FALSE),
                  None, GetBool(config, "create_remote", FALSE))

\* no wizard is running
NoWizard ==
    [config |-> DefaultConfiguration, title |-> <<>>, language |-> "",
     is_private |-> FALSE, template_file |-> None,
     cancelled |-> None, asked_after |-> 0, result |-> None,
     last |-> None, all_empty |-> TRUE]

(***************************************************************************)
(* State.                                                                  *)
(***************************************************************************)
VARIABLES
    token,          \* ReplitAPI.token
    self_config,    \* ReplCreator.config
    disk,           \* the record documents of config_dir, by file name
    files,          \* the entry-point files of the working directory
    calls,          \* create_repl invocations so far
    pc,             \* position of the create_repl call
    caller,         \* "direct" or "bulk"
    args,           \* the arguments of the create_repl call
    create_remote,  \* create_repl's local create_remote
    config,         \* create_repl's local config (the record it returns)
    retry_count,    \* create_repl's retry_count
    attemptLog,     \* what the network did in each create_remote_repl call
    posts,          \* network requests made by the operation
    exc,            \* the exception the create_repl call raised
    persisted,      \* how the initial persist of the call ended
    repersisted,    \* how the re-persist after remote success ended
    all_ok,         \* every call so far wrote all its documents and returned
    latest,         \* while all_ok, by file name: the record returned by the
                    \* most recent call whose title derives that name
    prev,           \* while all_ok: the call that returned just before the
                    \* current one began (its title, and whether it embedded
                    \* a remote result)
    bulk_pc,        \* position of bulk_create_repls
    configs,        \* the list bulk_create_repls loaded
    idx,            \* index of the entry the bulk loop is at
    results,        \* bulk_create_repls' results
    bulk_exc,       \* the exception bulk_create_repls raised
    api_result,     \* result of a call of the client by another caller
    template_read,  \* how the call's use of the template ended
    store,          \* the last ReplConfig.load or ReplConfig.save and what
                    \* it found, left and answered
    wiz_pc,         \* the prompt ReplWizard.start_wizard is at
    wiz             \* the wizard's configuration and its answers so far

callVars == <<pc, caller, args, create_remote, config, retry_count,
              attemptLog, exc, persisted, repersisted, template_read>>
histVars == <<latest, all_ok>>
bulkVars == <<bulk_pc, configs, idx, results, bulk_exc>>
wizVars == <<wiz_pc, wiz>>
vars == <<token, self_config, disk, files, calls, pc, caller, args,
          create_remote, config, retry_count, attemptLog, posts, exc,
          persisted, repersisted, latest, all_ok, prev,
          bulk_pc, configs, idx, results, bulk_exc, api_result,
          template_read, store, wiz_pc, wiz>>

NoArgs == [title |-> <<>>, language |-> "", is_private |-> FALSE,
           template_file |-> None, team_id |-> None, create_remote |-> None]
NoConfig == BuildConfig("", FALSE, None, None, get_default_config)
NoApiResult == [op |-> "none"]
NoStoreOp == [op |-> "none"]

config_file == ConfigFileName(args.title)

Resting == { "idle", "returned", "raised" }
WizardResting == { "idle", "returned", "raised" }

\* everything but the documents of config_dir
InitEngine ==
    /\ token \in Tokens
    /\ self_config \in InitialConfigs
    /\ files = [e \in EntryFiles |-> "absent"]
    /\ calls = 0
    /\ pc = "idle"
    /\ caller = "direct"
    /\ args = NoArgs
    /\ create_remote = None
    /\ config = NoConfig
    /\ retry_count = 0
    /\ attemptLog = <<>>
    /\ posts = 0
    /\ exc = None
    /\ persisted = "none"
    /\ repersisted = "none"
    /\ latest = [f \in Slugs |-> None]
    /\ all_ok = TRUE
    /\ prev = None
    /\ bulk_pc = "idle"
    /\ configs = <<>>
    /\ idx = 0
    /\ results = <<>>
    /\ bulk_exc = None
    /\ api_result = NoApiResult
    /\ template_read = "none"
    /\ store = NoStoreOp
    /\ wiz_pc = "idle"
    /\ wiz = NoWizard

\* the engine was constructed: its configuration is the default and there is
\* no configuration document, or it was loaded from the document
Init ==
    /\ InitEngine
    /\ disk = [f \in DiskNames |->
                  IF f = ConfigDocName /\ self_config = LoadedConfig
                  THEN FullDoc(JsonDump(LoadedConfiguration))
                  ELSE AbsentFile]

\* a ReplConfig is about to be constructed on a path where there is no
\* document, or a document with any content
StoreInit ==
    /\ InitEngine
    /\ \E d \in { AbsentFile, EmptyFile }
                 \cup { FullDoc(JsonDump(c)) : c \in Configurations } :
          disk = [f \in DiskNames |->
                     IF f = ConfigDocName THEN d ELSE AbsentFile]

(***************************************************************************)
(* create_repl, lines 413-451: entry of the call.                          *)
(***************************************************************************)
BeginCreateRepl(a, who) ==
    /\ calls' = calls + 1
    /\ pc' = "persist"
    /\ caller' = who
    /\ args' = a
    /\ create_remote' = ResolveCreateRemote(a.create_remote, token)
    /\ config' = BuildConfig(a.language, a.is_private, a.template_file,
                             a.team_id, self_config)
    /\ retry_count' = 0
    /\ attemptLog' = <<>>
    /\ exc' = None
    /\ persisted' = "none"
    /\ repersisted' = "none"
    /\ template_read' = "none"
    /\ api_result' = NoApiResult
    /\ prev' = IF pc = "returned" /\ all_ok
               THEN Some([title |-> args.title,
                          remote |-> ~IsNone(config.remote)])
               ELSE None
    /\ UNCHANGED histVars

\* the call ends: it returned rec after writing all its documents (ok), or
\* it raised or one of its writes failed
EndCall(ok, f, rec) ==
    /\ all_ok' = (all_ok /\ ok)
    /\ latest' = IF all_ok /\ ok
                 THEN [g \in Slugs |-> IF g = f THEN Some(rec) ELSE latest[g]]
                 ELSE [g \in Slugs |-> None]

\* a caller (main, create_from_wizard, ...) calls create_repl with a title,
\* a language and a template of the given sets
CreateReplFrom(titles, languages, template_files) ==
    /\ pc \in Resting
    /\ bulk_pc \in Resting
    /\ calls < MaxCalls
    /\ \E title \in titles, language \in languages, is_private \in Privacies,
          template_file \in template_files, team_id \in TeamIds,
          cr \in CreateRemoteArgs :
          BeginCreateRepl([title |-> title, language |-> language,
                           is_private |-> is_private,
                           template_file |-> template_file,
                           team_id |-> team_id, create_remote |-> cr],
                          "direct")
    /\ posts' = 0
    /\ bulk_pc' = "idle"
    /\ configs' = <<>>
    /\ idx' = 0
    /\ results' = <<>>
    /\ bulk_exc' = None
    /\ UNCHANGED <<token, self_config, disk, files, store, wizVars>>

CreateRepl == CreateReplFrom(Titles, Languages, TemplateFiles)

\* a title is any text: also the one that derives the name of the
\* configuration document
CreateReplAnyTitle ==
    CreateReplFrom({ ConfigDocName, <<"D">> }, { "python" }, { None })

(***************************************************************************)
(* create_repl, lines 453-461: the initial persist.                        *)
(***************************************************************************)
PersistLocal ==
    /\ pc = "persist"
    /\ \E w \in WriteOutcomes :
          /\ disk' = [disk EXCEPT ![config_file] =
                         WriteDocument(disk[config_file], config, w)]
          /\ persisted' = IF w = "ok" THEN "ok" ELSE "failed"
          /\ IF WriteFailed(w)
             THEN /\ pc' = "raised"
                  /\ exc' = Some(ConfigurationError(
                                     "Failed to save configuration",
                                     Some(config_file)))
                  /\ EndCall(FALSE, config_file, config)
             ELSE /\ pc' = "entry"
                  /\ exc' = exc
                  /\ UNCHANGED histVars
    /\ UNCHANGED <<token, self_config, files, calls, caller, args,
                   create_remote, config, retry_count, attemptLog, posts,
                   repersisted, prev, bulkVars, api_result, template_read,
                   store, wizVars>>

(***************************************************************************)
(* create_repl, lines 463-471: the entry-point artifact, then the decision *)
(* whether the remote loop is entered.                                     *)
(***************************************************************************)
CreateEntryPoint ==
    /\ pc = "entry"
    /\ \E tplRead \in (IF Truthy(args.template_file)
                        THEN TemplateReadOutcomes ELSE {"ok"}),
          w \in EntryWriteOutcomes,
          w2 \in (IF Truthy(args.template_file)
                  THEN EntryWriteOutcomes ELSE {"ok"}) :
          LET r == IF Truthy(args.template_file)
                   THEN _create_from_template(config.entrypoint, files,
                                              tplRead, w, w2)
                   ELSE _create_entry_point(config.entrypoint, files, w)
          IN  /\ files' = r.files
              /\ template_read' = IF ~Truthy(args.template_file) THEN "none"
                                  ELSE TemplateOutcome(config.entrypoint,
                                                       tplRead, w)
              /\ IF ~IsNone(r.exc)
                 THEN /\ pc' = "raised"
                      /\ exc' = r.exc
                      /\ EndCall(FALSE, config_file, config)
                 ELSE /\ exc' = exc
                      /\ IF RemoteLoopEntered(create_remote, self_config, token)
                         THEN /\ pc' = "remote"
                              /\ UNCHANGED histVars
                         ELSE /\ pc' = "returned"
                              /\ EndCall(TRUE, config_file, config)
    /\ UNCHANGED <<token, self_config, disk, calls, caller, args,
                   create_remote, config, retry_count, attemptLog, posts,
                   persisted, repersisted, prev, bulkVars, api_result,
                   store, wizVars>>

(***************************************************************************)
(* create_repl, lines 488-499: which except clause takes an exception      *)
(* raised in the body of the retry loop.                                   *)
(***************************************************************************)
\* every exception retried
ExceptClauseRetryAll(cls) ==
    IF IsInstance(cls, "Exception") THEN "retry" ELSE "propagate"

\* the second clause narrowed to "except ValueError"
ExceptClauseValueErrorOnly(cls) ==
    IF IsInstance(cls, "RequestException") THEN "retry"
    ELSE IF IsInstance(cls, "ValueError") THEN "break"
    ELSE "propagate"

ExceptClause(cls) ==
    IF IsInstance(cls, "RequestException") THEN "retry"
    ELSE IF IsInstance(cls, "Exception") THEN "break"
    ELSE "propagate"

(***************************************************************************)
(* create_repl, lines 474-499: one iteration of the retry loop.            *)
(***************************************************************************)
RemoteAttempt ==
    /\ pc = "remote"
    /\ retry_count < max_retries
    /\ \E net \in NetOutcomes :
       \* the re-persist is reached only when create_remote_repl returned
       \E w \in (IF create_remote_repl(is_remote_enabled(token), args.title,
                                       args.language, args.is_private,
                                       net).kind = "return"
                 THEN WriteOutcomes ELSE {"ok"}) :
          LET r == create_remote_repl(is_remote_enabled(token), args.title,
                                      args.language, args.is_private, net)
              \* the exception raised in the try body, if any
              raised ==
                  IF r.kind = "raise" THEN Some(r)
                  ELSE IF WriteFailed(w)
                       THEN Some(Raise("OSError", "write failed"))
                       ELSE IF ~HasKey(r.value, "url")
                            THEN Some(Raise("KeyError", "url"))
                            ELSE None
              clause == IF IsNone(raised) THEN "break"
                        ELSE ExceptClause(raised[1].cls)
          IN  /\ attemptLog' = Append(attemptLog, net)
              /\ posts' = posts + r.posts
              /\ IF r.kind = "return"
                 THEN /\ config' = EmbedRemote(config, r.value)
                      /\ disk' = [disk EXCEPT ![config_file] =
                                     WriteDocument(disk[config_file], config', w)]
                      /\ repersisted' = IF w = "ok" THEN "ok" ELSE "failed"
                 ELSE UNCHANGED <<config, disk, repersisted>>
              /\ CASE clause = "retry" ->
                        /\ retry_count' = retry_count + 1
                        /\ pc' = IF retry_count + 1 < max_retries
                                 THEN "remote" ELSE "returned"
                        /\ exc' = exc
                   [] clause = "break" ->
                        /\ retry_count' = retry_count
                        /\ pc' = "returned"
                        /\ exc' = exc
                   [] OTHER ->
                        /\ retry_count' = retry_count
                        /\ pc' = "raised"
                        /\ exc' = raised
              /\ IF pc' = "remote" THEN UNCHANGED histVars
                 ELSE EndCall(pc' = "returned" /\ repersisted' # "failed",
                              config_file, config')
    /\ UNCHANGED <<token, self_config, files, calls, caller, args,
                   create_remote, persisted, prev, bulkVars, api_result,
                   template_read, store, wizVars>>

(***************************************************************************)
(* bulk_create_repls, lines 503-523.                                       *)
(***************************************************************************)
ResetCall ==
    /\ pc' = "idle"
    /\ caller' = "direct"
    /\ args' = NoArgs
    /\ create_remote' = None
    /\ config' = NoConfig
    /\ retry_count' = 0
    /\ attemptLog' = <<>>
    /\ exc' = None
    /\ persisted' = "none"
    /\ repersisted' = "none"
    /\ template_read' = "none"

\* lines 505-508: the list is loaded
BulkStart ==
    /\ pc \in Resting
    /\ bulk_pc \in Resting
    /\ \E cs \in BulkFiles :
          /\ calls + Len(cs) <= MaxCalls
          /\ configs' = cs
    /\ bulk_pc' = "loop"
    /\ idx' = 1
    /\ results' = <<>>
    /\ bulk_exc' = None
    /\ ResetCall
    /\ posts' = 0
    /\ api_result' = NoApiResult
    /\ UNCHANGED <<token, self_config, disk, files, calls, histVars, prev,
                   store, wizVars>>

\* lines 509-518: the next entry; its title is read in the try body and,
\* when that fails, again in the except handler (line 521)
BulkItem ==
    /\ bulk_pc = "loop"
    /\ idx <= Len(configs)
    /\ LET repl_config == configs[idx] IN
       IF IsNone(repl_config.title)
       THEN /\ bulk_pc' = "raised"
            /\ bulk_exc' = Some(Raise("KeyError", "title"))
            /\ UNCHANGED <<callVars, calls, api_result, histVars, prev>>
       ELSE /\ BeginCreateRepl(BulkArgs(repl_config, self_config), "bulk")
            /\ bulk_pc' = "call"
            /\ bulk_exc' = bulk_exc
    /\ UNCHANGED <<token, self_config, disk, files, posts, configs, idx,
                   results, store, wizVars>>

\* lines 519-521: the outcome of the entry is appended
BulkCollect ==
    /\ bulk_pc = "call"
    /\ pc \in { "returned", "raised" }
    /\ results' = Append(results,
                         IF pc = "returned"
                         THEN SuccessOutcome(args.title, config)
                         ELSE ErrorOutcome(args.title, exc[1]))
    /\ idx' = idx + 1
    /\ bulk_pc' = "loop"
    /\ ResetCall
    /\ UNCHANGED <<token, self_config, disk, files, calls, posts, configs,
                   bulk_exc, api_result, histVars, prev, store, wizVars>>

\* line 523
BulkReturn ==
    /\ bulk_pc = "loop"
    /\ idx > Len(configs)
    /\ bulk_pc' = "returned"
    /\ UNCHANGED <<token, self_config, disk, files, calls, callVars, posts,
                   configs, idx, results, bulk_exc, api_result, histVars,
                   prev, store, wizVars>>

(***************************************************************************)
(* A caller other than create_repl uses the client.                        *)
(***************************************************************************)
StartApiCall ==
    /\ pc \in Resting
    /\ bulk_pc \in Resting
    /\ calls < MaxCalls
    /\ calls' = calls + 1
    /\ ResetCall
    /\ bulk_pc' = "idle"
    /\ configs' = <<>>
    /\ idx' = 0
    /\ results' = <<>>
    /\ bulk_exc' = None
    /\ UNCHANGED <<token, self_config, disk, files, histVars, prev, store,
                   wizVars>>

ApiCreateRemoteRepl ==
    /\ StartApiCall
    /\ \E net \in NetOutcomes, title \in Titles, language \in Languages :
          LET r == create_remote_repl(is_remote_enabled(token), title,
                                      language, FALSE, net)
          IN  /\ api_result' = [op |-> "create_remote_repl", net |-> net,
                                result |-> r]
              /\ posts' = r.posts

ApiGetTemplates ==
    /\ StartApiCall
    /\ \E net \in NetOutcomes :
          LET r == get_templates(is_remote_enabled(token), net)
          IN  /\ api_result' = [op |-> "get_templates", net |-> net,
                                result |-> r]
              /\ posts' = r.posts

(***************************************************************************)
(* ReplConfig.load and ReplConfig.save on the configuration document.      *)
(***************************************************************************)
StoreLoad ==
    /\ pc \in Resting
    /\ bulk_pc \in Resting
    /\ wiz_pc \in WizardResting
    /\ calls < MaxCalls
    /\ calls' = calls + 1
    /\ ResetCall
    /\ LET doc == disk[ConfigDocName] IN
       store' = [op |-> "load", before |-> doc, after |-> doc,
                 result |-> load(doc),
                 \* the configuration of the save this load follows
                 follows |-> IF /\ store.op = "save"
                                /\ store.result.kind = "return"
                                /\ store.after = doc
                             THEN Some(store.config) ELSE None]
    /\ posts' = 0
    /\ api_result' = NoApiResult
    /\ UNCHANGED <<token, self_config, disk, files, histVars, prev, bulkVars,
                   wizVars>>

StoreSave ==
    /\ pc \in Resting
    /\ bulk_pc \in Resting
    /\ wiz_pc \in WizardResting
    /\ calls < MaxCalls
    /\ calls' = calls + 1
    /\ ResetCall
    /\ \E cfg \in Configurations :
       \E w \in (IF IsNone(validate_config(cfg))
                 THEN WriteOutcomes ELSE {"ok"}) :
          LET doc == disk[ConfigDocName]
              s == save(doc, cfg, w)
          IN  /\ disk' = [disk EXCEPT ![ConfigDocName] = s.doc]
              /\ store' = [op |-> "save", config |-> cfg, w |-> w,
                           before |-> doc, after |-> s.doc,
                           result |-> s.result]
    /\ posts' = 0
    /\ api_result' = NoApiResult
    /\ UNCHANGED <<token, self_config, files, histVars, prev, bulkVars,
                   wizVars>>

(***************************************************************************)
(* ReplWizard.__init__ and start_wizard, one action per prompt.            *)
(***************************************************************************)
\* what the model keeps of a response: the first interrupt, the prompts
\* answered after one, the last response and its prompt, and whether every
\* response so far was empty
Noted(w, state, input, answered) ==
    [w EXCEPT !.cancelled = IF IsNone(w.cancelled) /\ input.kind = "interrupt"
                            THEN Some(state) ELSE w.cancelled,
              !.asked_after = IF ~IsNone(w.cancelled) /\ answered
                              THEN w.asked_after + 1 ELSE w.asked_after,
              !.last = Some([state |-> state, input |-> input]),
              !.all_empty = w.all_empty /\ input = Line(<<>>)]

WizardFrame ==
    UNCHANGED <<token, self_config, disk, files, calls, callVars, posts,
                histVars, prev, bulkVars, api_result, store>>

\* create_from_wizard, line 583, and start_wizard up to the first prompt
StartWizard ==
    /\ pc \in Resting
    /\ bulk_pc \in Resting
    /\ wiz_pc \in WizardResting
    /\ calls < MaxCalls
    /\ calls' = calls + 1
    /\ LET r == load(disk[ConfigDocName]) IN
       IF r.kind = "raise"
       THEN /\ wiz_pc' = "raised"
            /\ wiz' = NoWizard
       ELSE /\ wiz_pc' = "Title"
            /\ wiz' = [NoWizard EXCEPT !.config = r.value]
    /\ UNCHANGED <<token, self_config, disk, files, callVars, posts,
                   histVars, prev, bulkVars, api_result, store>>

\* lines 269-271
PromptTitle ==
    /\ wiz_pc = "Title"
    /\ \E input \in TitleInputs :
          LET title == _prompt_string(input, Some(MyRepl)).value IN
          /\ wiz' = [Noted(wiz, "Title", input, TRUE) EXCEPT !.title = title]
          /\ wiz_pc' = IF title = <<>> THEN "raised" ELSE "Language"
    /\ WizardFrame

\* lines 273-279
PromptLanguage ==
    /\ wiz_pc = "Language"
    /\ \E input \in ChoiceInputs :
          LET r == _prompt_choice(input, LanguageChoices, "python") IN
          IF r.kind = "again"
          THEN /\ wiz' = Noted(wiz, "Language", input, FALSE)
               /\ wiz_pc' = "Language"
          ELSE /\ wiz' = [Noted(wiz, "Language", input, TRUE) EXCEPT
                             !.language = IF r.value = "" THEN "python"
                                          ELSE r.value]
               /\ wiz_pc' = "Privacy"
    /\ WizardFrame

\* lines 281-286: the privacy prompt; the template prompt is next only when
\* the configuration has templates
PromptPrivacy ==
    /\ wiz_pc = "Privacy"
    /\ \E input \in BooleanInputs :
          LET r == _prompt_boolean(input,
                       GetBool(wiz.config, "default_privacy", FALSE))
          IN  IF r.kind = "again"
              THEN /\ wiz' = Noted(wiz, "Privacy", input, FALSE)
                   /\ wiz_pc' = "Privacy"
              ELSE /\ wiz' = [Noted(wiz, "Privacy", input, TRUE) EXCEPT
                                 !.is_private = r.value]
                   /\ wiz_pc' = IF HasTemplates(wiz.config)
                                 THEN "TemplateSelection"
                                 ELSE "RemoteDecision"
    /\ WizardFrame

\* lines 287-292, and lines 306-314 when the prompt raises
PromptTemplate ==
    /\ wiz_pc = "TemplateSelection"
    /\ \E input \in TemplateNameInputs :
          LET r == _prompt_string(input, None)
              w == Noted(wiz, "TemplateSelection", input, TRUE)
          IN  IF r.kind = "raise"
              THEN /\ r.cls \in {"EOFError", "KeyboardInterrupt"}
                   /\ wiz' = [w EXCEPT
                                 !.result = Some(FallbackRequest(wiz.config))]
                   /\ wiz_pc' = "returned"
              ELSE /\ wiz' = [w EXCEPT
                                 !.template_file =
                                     IF r.value # <<>>
                                     THEN TemplatePath(wiz.config["templates"],
                                                       r.value)
                                     ELSE None]
                   /\ wiz_pc' = "RemoteDecision"
    /\ WizardFrame

\* lines 294-305
PromptRemote ==
    /\ wiz_pc = "RemoteDecision"
    /\ \E input \in BooleanInputs :
          LET r == _prompt_boolean(input,
                       GetBool(wiz.config, "create_remote", FALSE))
          IN  IF r.kind = "again"
              THEN /\ wiz' = Noted(wiz, "RemoteDecision", input, FALSE)
                   /\ wiz_pc' = "RemoteDecision"
              ELSE /\ wiz' = [Noted(wiz, "RemoteDecision", input, TRUE) EXCEPT
                                 !.result = Some(WizardRequest(
                                                wiz.title, wiz.language,
                                                wiz.is_private,
                                                wiz.template_file, r.value))]
                   /\ wiz_pc' = "returned"
    /\ WizardFrame

(***************************************************************************)
(* Specifications.  Spec: callers provision workspaces one call at a time. *)
(* BulkSpec: bulk runs replay create_repl over the entries of a list.      *)
(* ClientSpec: the remote client is used directly.                         *)
(***************************************************************************)
Next ==
    \/ CreateRepl
    \/ PersistLocal
    \/ CreateEntryPoint
    \/ RemoteAttempt

Spec == Init /\ [][Next]_vars

BulkNext ==
    \/ BulkStart
    \/ BulkItem
    \/ PersistLocal
    \/ CreateEntryPoint
    \/ RemoteAttempt
    \/ BulkCollect
    \/ BulkReturn

BulkSpec == Init /\ [][BulkNext]_vars

ClientNext ==
    \/ ApiCreateRemoteRepl
    \/ ApiGetTemplates

ClientSpec == Init /\ [][ClientNext]_vars

\* StoreSpec: a configuration store is constructed on a path and used.
StoreNext ==
    \/ StoreLoad
    \/ StoreSave

StoreSpec == StoreInit /\ [][StoreNext]_vars

\* EngineStoreSpec: the engine provisions workspaces of any title, and its
\* configuration is loaded and saved.
EngineStoreNext ==
    \/ StoreLoad
    \/ StoreSave
    \/ CreateReplAnyTitle
    \/ PersistLocal
    \/ CreateEntryPoint
    \/ RemoteAttempt

EngineStoreSpec == Init /\ [][EngineStoreNext]_vars

\* WizardSpec: wizards are run.
WizardNext ==
    \/ StartWizard
    \/ PromptTitle
    \/ PromptLanguage
    \/ PromptPrivacy
    \/ PromptTemplate
    \/ PromptRemote

WizardSpec == Init /\ [][WizardNext]_vars

(***************************************************************************)
(* Claims.                                                                 *)
(***************************************************************************)

\* C1: when remote creation is in effect and the request fails with a
\* transport-class failure on the first and the second attempt and succeeds
\* on the third, create_repl makes three attempts and returns a record that
\* embeds the remote result.  Stated over the returned calls whose attempts
\* followed that scenario as far as they went.
C1_TransportFailuresRetried ==
    ( /\ pc = "returned"
      /\ attemptLog # <<>>
      /\ \A i \in 1..Len(attemptLog) :
            IF i <= 2 THEN attemptLog[i] \in TransportFailures
            ELSE attemptLog[i] = NetSuccess )
    => ( /\ Len(attemptLog) = 3
         /\ ~IsNone(config.remote) )

\* C2: when the remote creation request fails with a non-transport error
\* (401, 403, 429, another non-2xx status, an errors collection, a null
\* body), create_repl makes exactly one remote attempt, and the returned
\* record and the persisted document carry no remote result.
C2_NonTransportFailureOneAttempt ==
    ( /\ attemptLog # <<>>
      /\ attemptLog[1] \in NonTransportFailures )
    => ( /\ pc = "returned"
         /\ Len(attemptLog) = 1
         /\ posts = 1
         /\ IsNone(config.remote)
         /\ disk[config_file] = FullDoc(config) )

C2_Witness ==
    /\ pc = "returned"
    /\ attemptLog = << NetResp(401, "repl") >>
    /\ IsNone(config.remote)
    /\ disk[config_file] = FullDoc(config)

\* C3: a create_repl call never makes more than 3 remote attempts, and when
\* every attempt fails with a transport-class failure it stops after the
\* third attempt, leaves the record local-only and returns it.
C3_StopsAfterThirdTransportFailure ==
    /\ Len(attemptLog) <= max_retries
    /\ ( /\ pc = "returned"
         /\ attemptLog # <<>>
         /\ \A i \in 1..Len(attemptLog) : attemptLog[i] \in TransportFailures )
       => ( /\ Len(attemptLog) = max_retries
            /\ IsNone(config.remote) )

\* C4: once the local record is persisted no remote failure makes the call
\* fail: after a remote attempt the call is still in its retry loop or has
\* returned the record (local-only or with the remote result), it has raised
\* nothing, and a call that raised after the persist had made no attempt.
C4_RemoteFailureNeverFatal ==
    /\ (persisted = "ok" /\ attemptLog # <<>>)
          => (pc \in {"remote", "returned"} /\ IsNone(exc))
    /\ (pc = "remote") => (retry_count < max_retries)
    /\ (pc = "raised" /\ persisted = "ok")
          => (attemptLog = <<>> /\ exc[1].cls \in {"FileNotFoundError", "OSError"})

C4_Witness ==
    /\ pc = "returned"
    /\ persisted = "ok"
    /\ attemptLog = << NetResp(200, "nodata") >>
    /\ IsNone(config.remote)
    /\ IsNone(exc)

\* C5: a request with create_remote true on a client without a credential is
\* downgraded to local-only: no remote creation call and no network request
\* is made, the call does not raise the client's error, and the record has
\* no remote result.
C5_DisabledClientDowngrades ==
    (IsNone(token) /\ args.create_remote = Some(TRUE))
    => ( /\ create_remote = Some(FALSE)
         /\ pc # "remote"
         /\ attemptLog = <<>>
         /\ posts = 0
         /\ IsNone(config.remote)
         /\ (pc = "raised") => (exc[1].cls # "ValueError") )

C5_Witness ==
    /\ IsNone(token)
    /\ args.create_remote = Some(TRUE)
    /\ pc = "returned"
    /\ IsNone(config.remote)

\* C6: on a client constructed without a credential every create_remote_repl
\* call fails, without a network request, with an error whose class differs
\* from the class of every network-class and remote-classified error; every
\* get_templates call returns an empty sequence without a network request.
C6_DisabledErrorDistinct ==
    /\ (IsNone(token) /\ api_result.op = "create_remote_repl")
          => ( /\ api_result.result.kind = "raise"
               /\ posts = 0
               /\ \A net \in NetOutcomes :
                     (_graphql_request(net).kind = "raise")
                        => (_graphql_request(net).cls # api_result.result.cls) )
    /\ (IsNone(token) /\ api_result.op = "get_templates")
          => ( /\ api_result.result.kind = "return"
               /\ api_result.result.value = <<>>
               /\ posts = 0 )

\* C7: bulk_create_repls returns one outcome per request, in input order,
\* whatever the entries are (also for an entry with a missing field): the
\* run is never cut short by an entry.
C7_BulkNeverCutShort ==
    /\ bulk_pc # "raised"
    /\ (bulk_pc = "returned")
          => ( /\ Len(results) = Len(configs)
               /\ \A i \in 1..Len(configs) :
                     /\ results[i].title = configs[i].title[1]
                     /\ results[i].status \in {"success", "error"} )

\* C8: a create_repl call makes no remote attempt unless its local record
\* write succeeded first; when the local write fails the call raises
\* ConfigurationError carrying the path and makes no remote attempt.
C8_NoRemoteBeforeLocalWrite ==
    /\ (attemptLog # <<>> \/ pc = "remote") => (persisted = "ok")
    /\ (persisted = "failed")
          => ( /\ pc = "raised"
               /\ exc[1].cls = "ConfigurationError"
               /\ exc[1].path = Some(config_file)
               /\ attemptLog = <<>>
               /\ posts = 0 )

C8_Witness ==
    /\ persisted = "failed"
    /\ pc = "raised"
    /\ ~IsNone(token)
    /\ args.create_remote = Some(TRUE)
    /\ attemptLog = <<>>

\* C9: create_repl never leaves a half-written record document: no document
\* is ever empty or partial.
C9_NoHalfWrittenDocument ==
    \A f \in Slugs : disk[f].kind \in {"absent", "full"}

\* C10: after any sequence of successful create_repl calls (calls that wrote
\* all their documents and returned), every document equals the record of
\* the most recent call whose title derives its name; in particular after
\* "D" then "d" the document named for "D" is exactly the record of "d".
C10_LastWriteWins ==
    /\ (all_ok /\ pc \in Resting)
          => \A f \in Slugs :
                IF IsNone(latest[f]) THEN disk[f] = AbsentFile
                ELSE disk[f] = FullDoc(latest[f][1])
    /\ ( /\ all_ok
         /\ pc = "returned"
         /\ ~IsNone(prev)
         /\ prev[1].title = <<"D">>
         /\ args.title = <<"d">> )
          => disk[ConfigFileName(prev[1].title)] = FullDoc(config)

C10_Witness ==
    /\ all_ok
    /\ pc = "returned"
    /\ ~IsNone(prev)
    /\ prev[1].title = <<"D">>
    /\ prev[1].remote
    /\ args.title = <<"d">>
    /\ IsNone(config.remote)
    /\ disk[<<"d">>] = FullDoc(config)

\* C11: load of a configuration document that lacks default_language,
\* templates or default_privacy raises a ConfigurationError whose message
\* names a missing field; a document with those fields but one of the wrong
\* type (default_language not text, templates not a mapping, default_privacy
\* not boolean) raises a ConfigurationError naming that field; load never
\* returns a document with a required field missing or of the wrong type.
C11_LoadRejectsInvalidDocument ==
    (store.op = "load" /\ store.before.kind = "full")
    => LET cfg == JsonLoad(store.before.rec)
           required == { required_fields[i] : i \in 1..Len(required_fields) }
           missing == { f \in required : f \notin DOMAIN cfg }
           mistyped == { f \in required \ missing : cfg[f].t # FieldTypes[f] }
           Names(f) == \E i \in 1..Len(store.result.msg) :
                          store.result.msg[i] = f
       IN  /\ (missing # {})
                 => ( /\ store.result.kind = "raise"
                      /\ store.result.cls = "ConfigurationError"
                      /\ \E f \in missing : Names(f) )
           /\ (missing = {} /\ mistyped # {})
                 => ( /\ store.result.kind = "raise"
                      /\ store.result.cls = "ConfigurationError"
                      /\ \E f \in mistyped : Names(f) )
           /\ (store.result.kind = "return")
                 => (missing = {} /\ mistyped = {})

C11_Witness ==
    /\ store.op = "load"
    /\ store.before =
          FullDoc(JsonDump(Without(LoadedConfiguration, {"templates"})))
    /\ store.result.kind = "raise"
    /\ store.result.cls = "ConfigurationError"
    /\ store.result.msg = << "Missing required field: ", "templates" >>

\* C12: for every configuration that passes validation, a load that follows
\* a save of it (a save that returned, the document untouched in between)
\* returns a configuration equal to the one saved.
C12_SaveLoadRoundTrip ==
    (store.op = "load" /\ ~IsNone(store.follows))
    => ( /\ IsNone(validate_config(store.follows[1]))
         /\ store.result = Return(store.follows[1]) )

C12_Witness ==
    /\ store.op = "load"
    /\ store.follows = Some(LoadedConfiguration)
    /\ store.result = Return(LoadedConfiguration)

\* C13: save is atomic: when the configuration fails validation or the write
\* fails, save raises ConfigurationError and the document holds exactly its
\* previous content; otherwise the document holds the whole new
\* configuration.
C13_SaveAtomic ==
    (store.op = "save")
    => IF ~IsNone(validate_config(store.config)) \/ store.w # "ok"
       THEN /\ store.result.kind = "raise"
            /\ store.result.cls = "ConfigurationError"
            /\ store.after = store.before
       ELSE /\ store.result.kind = "return"
            /\ store.after = FullDoc(JsonDump(store.config))

\* C14: the configuration document changes only in a step of save; a load on
\* an absent path returns the synthesized default and leaves the path
\* absent; no step of a create_repl call, for any title, changes it.
C14_OnlySaveChangesConfigDocument ==
    [][ /\ (disk'[ConfigDocName] # disk[ConfigDocName])
              => (calls' = calls + 1 /\ store'.op = "save")
        /\ ( /\ calls' = calls + 1
             /\ store'.op = "load"
             /\ disk[ConfigDocName] = AbsentFile )
              => ( /\ store'.result = Return(DefaultConfiguration)
                   /\ disk'[ConfigDocName] = AbsentFile ) ]_vars

\* C15: the effective remote-creation flag is the explicit create_remote of
\* the request when one is given, else the configuration's create_remote:
\* on an enabled client a returned call has made a remote attempt exactly
\* when the explicit value is true or, without one, when the configuration
\* default is true.
C15_ConfigDefaultApplies ==
    (pc = "returned" /\ is_remote_enabled(token))
    => ( (attemptLog # <<>>)
           <=> IF ~IsNone(args.create_remote) THEN args.create_remote[1]
               ELSE self_config.create_remote )

\* C16: once input ends or is interrupted at a prompt (Title, Language,
\* Privacy, TemplateSelection, RemoteDecision) the wizard runs no further
\* prompt, start_wizard does not raise, and it has returned the fallback
\* request: the configuration's defaults and the placeholder title.
C16_CancellationReturnsFallback ==
    (~IsNone(wiz.cancelled))
    => ( /\ wiz_pc = "returned"
         /\ wiz.asked_after = 0
         /\ wiz.result = Some(FallbackRequest(wiz.config)) )

\* C17: a create_repl call that follows a returned call of a different
\* derived filename changes nothing of what exists when it begins: no
\* document other than its own and no entry-point file (stated for the
\* second call of a run, where every existing artifact is the first
\* call's).
C17_NoCrossWorkspaceInterference ==
    [][ ( /\ calls = 2
          /\ pc \in {"persist", "entry", "remote"}
          /\ ~IsNone(prev)
          /\ ConfigFileName(prev[1].title) # config_file )
        => ( /\ \A f \in DiskNames \ {config_file} : disk'[f] = disk[f]
             /\ \A e \in EntryFiles :
                   (files[e] # "absent") => (files'[e] = files[e]) ) ]_vars

\* C18: a create_repl call for a language that is neither python nor nodejs
\* does not fail because of the language: once its record is written it
\* returns, and the record's run command and entry-point name are blank.
C18_UnknownLanguagePermitted ==
    ( /\ pc \in {"returned", "raised"}
      /\ args.language \notin {"python", "nodejs"}
      /\ persisted = "ok" )
    => ( /\ pc = "returned"
         /\ config.run = ""
         /\ config.entrypoint = "" )

\* C19: a failed read or parse of the template does not make create_repl
\* fail: the call raises nothing (but for a failed write of the stub
\* itself) and goes on to return the record.
C19_TemplateFailureNeverBlocks ==
    (template_read = "failed")
    => ( /\ pc \in {"remote", "returned", "raised"}
         /\ (pc = "raised") => (exc[1] = Raise("OSError", "open failed")) )

\* C20: a create_repl call that returned a record for python or nodejs has
\* produced its entry-point artifact: the file holds the template expansion
\* when a template was supplied (and could be read and the expansion
\* written), and the minimal stub otherwise, whatever was there before the
\* call.
C20_EntryPointProduced ==
    (pc = "returned" /\ args.language \in {"python", "nodejs"})
    => files[config.entrypoint] =
          IF Truthy(args.template_file) /\ template_read = "ok"
          THEN "expansion" ELSE StubFor(config.entrypoint)


\* C21: the client gives every kind of failed request its own error class
\* (connection failure, timeout, 401, 403, 429, another non-2xx status, a
\* 2xx body with errors, a null body), so that two failures of different
\* kinds never raise the same class, and it returns every 2xx response with
\* a non-null body and no errors as a success.
C21_OutcomesClassified ==
    LET Kind(net) ==
            IF net.kind = "exc" THEN net.cls
            ELSE IF net.status < 200 \/ net.status >= 300
                 THEN IF net.status \in {401, 403, 429} THEN net.status
                      ELSE "other"
                 ELSE IF net.body \in {"errors", "null"} THEN net.body
                      ELSE "success"
    IN  (api_result.op \in {"create_remote_repl", "get_templates"}
            /\ ~IsNone(token))
        => LET r == _graphql_request(api_result.net) IN
           IF Kind(api_result.net) = "success"
           THEN r.kind = "return"
           ELSE /\ r.kind = "raise"
                /\ \A other \in NetOutcomes :
                      (Kind(other) \notin {"success", Kind(api_result.net)})
                         => ( /\ _graphql_request(other).kind = "raise"
                              /\ _graphql_request(other).cls # r.cls )

C23_InvalidResponseReprompts ==
    LET Usable(state, input) ==
            \/ input.kind = "interrupt"
            \/ input.text = <<>>
            \/ /\ state \in {"Privacy", "RemoteDecision"}
               /\ Lower(input.text)
                     \in { <<"y">>, <<"y", "e", "s">>, <<"n">>, <<"n", "o">> }
            \/ /\ state \in {"Language", "TemplateSelection"}
               /\ ~IsNone(ParseInt(input.text))
               /\ ParseInt(input.text)[1]
                     \in 1..(IF state = "Language" THEN Len(LanguageChoices)
                             ELSE 1)
    IN  (~IsNone(wiz.last)
           /\ IsNone(wiz.cancelled)
           /\ wiz.last[1].state # "Title"
           /\ ~Usable(wiz.last[1].state, wiz.last[1].input))
        => (wiz_pc = wiz.last[1].state)

\* C24: a run of the wizard in which every response was empty returns a
\* request whose language is the configuration's default_language, whose
\* privacy is default_privacy and whose remote-creation flag is the
\* configuration's create_remote.
C24_EmptyResponsesTakeConfigDefaults ==
    (wiz_pc = "returned" /\ wiz.all_empty /\ IsNone(wiz.cancelled))
    => ( /\ wiz.result[1].language = wiz.config["default_language"].v
         /\ wiz.result[1].is_private
               = GetBool(wiz.config, "default_privacy", FALSE)
         /\ wiz.result[1].create_remote
               = GetBool(wiz.config, "create_remote", FALSE) )

\* C25: a bulk entry without language, is_private, team_id or create_remote
\* is provisioned with the configuration's default_language,
\* default_privacy, team_id and create_remote: on an enabled client the
\* returned call of an entry without create_remote has made a remote
\* attempt exactly when the configuration's create_remote is true.
C25_BulkEntryDefaults ==
    (bulk_pc = "call" /\ caller = "bulk" /\ pc = "returned")
    => LET repl_config == configs[idx] IN
       /\ IsNone(repl_config.language)
             => (config.language = self_config.default_language)
       /\ IsNone(repl_config.is_private)
             => (config.is_private = self_config.default_privacy)
       /\ IsNone(repl_config.team_id)
             => (config.team_id = self_config.team_id)
       /\ (IsNone(repl_config.create_remote) /\ is_remote_enabled(token))
             => ((attemptLog # <<>>) <=> self_config.create_remote)

C27_DocumentEqualsReturnedRecord ==
    (pc = "returned") => (disk[config_file] = FullDoc(config))

\* C28: the record of a call and every record document embed a remote
\* result only with id, title, url, language and isPrivate, and the record
\* of a call embeds one only when the last attempt was reported as a
\* success with the created workspace.
C28_EmbeddedRemoteIsReported ==
    LET Reported(remote) ==
            {"id", "title", "url", "language", "isPrivate"}
                \subseteq DOMAIN remote
    IN  /\ (pc \in {"remote", "returned", "raised"} /\ ~IsNone(config.remote))
              => ( /\ Reported(config.remote[1])
                   /\ attemptLog # <<>>
                   /\ attemptLog[Len(attemptLog)] = NetSuccess )
        /\ \A n \in Slugs :
              (disk[n].kind = "full" /\ ~IsNone(disk[n].rec.remote))
                 => Reported(disk[n].rec.remote[1])

====
